---- MODULE Spec2Model ----
(***************************************************************************)
(* cursor2md: the ls / export pipeline of the command line tool.           *)
(*                                                                         *)
(* Strings are sequences of one-character strings, so that prefix tests,   *)
(* prefix trimming, concatenation and character replacement are computed   *)
(* as the Go code computes them.  Epoch milliseconds are naturals.  A      *)
(* time.Time is its Unix second; the zero time.Time{} (year 1) lies before *)
(* every such second and is written ZeroTimeUnix.                          *)
(***************************************************************************)
EXTENDS Integers, Sequences, FiniteSets, TLC

VARIABLES
    store,      \* the cursorDiskKV table: a sequence of rows [key, value]
    args,       \* the parsed command line (os.Args after flag parsing)
    config,     \* Config built by main for batch export
    pc,         \* position of the process
    cursor,     \* number of rows the scan cursor has consumed
    sessions,   \* sessions / exportedSessions accumulated by the scan
    idx,        \* index of the export loop over exportedSessions
    files,      \* the output directory: path -> document
    out,        \* what was printed on stdout
    ferr,       \* the error returned to main by the operation ("" = nil)
    trace,      \* history: what isInTimeRange and convertToMarkdown read
    log,        \* history: per-row failures and the writes of the run
    nm          \* state of the by-sequence naming loop and the pure checks

vars == <<store, args, config, pc, cursor, sessions, idx, files, out, ferr, trace, log, nm>>

----------------------------------------------------------------------------
(* Bounds of the model *)

MaxRows == 2
MaxTotal == 11
MaxTitleLen == 2
MaxSec == 2
MaxTurns == 2

(* Program constants *)

MsPerSec == 1000
ZeroTimeUnix == -1

----------------------------------------------------------------------------
(* Strings *)

Prefix == <<"c","o","m","p","o","s","e","r","D","a","t","a",":">>
InlineDiffsKey == <<"i","n","l","i","n","e","D","i","f","f","s","D","a","t","a">>
Untitled == <<"u","n","t","i","t","l","e","d">>
DotMd == <<".","m","d">>
DigitChars == <<"0","1","2","3","4","5","6","7","8","9">>
Unsafe == {"<", ">", ":", "\"", "/", "\\", "|", "?", "*"}
Space == {" ", "\t"}

HasPrefix(s, p) == Len(s) >= Len(p) /\ SubSeq(s, 1, Len(p)) = p

TrimPrefix(s, p) == IF HasPrefix(s, p) THEN SubSeq(s, Len(p) + 1, Len(s)) ELSE s

\* strings.TrimSpace(s) == ""
IsBlank(s) == \A i \in 1..Len(s) : s[i] \in Space

\* mutant of ReplaceUnsafe: "|" is missing from the replacer
ReplaceUnsafeNoPipe(s) == [i \in 1..Len(s) |-> IF s[i] \in (Unsafe \ {"|"}) THEN "_" ELSE s[i]]

\* strings.NewReplacer("<","_", ... ,"*","_").Replace(s)
ReplaceUnsafe(s) == [i \in 1..Len(s) |-> IF s[i] \in Unsafe THEN "_" ELSE s[i]]

RECURSIVE FormatInt(_)
\* fmt.Sprintf("%d", n) for n >= 0
FormatInt(n) ==
    IF n < 10 THEN <<DigitChars[n + 1]>>
    ELSE FormatInt(n \div 10) \o <<DigitChars[(n % 10) + 1]>>

RECURSIVE Zeros(_)
Zeros(k) == IF k <= 0 THEN <<>> ELSE <<"0">> \o Zeros(k - 1)

\* fmt.Sprintf("%0*d", width, n) for n >= 0
ZeroPad(width, n) == Zeros(width - Len(FormatInt(n))) \o FormatInt(n)

\* filepath.Join(dir, name) for a name without separators: dir is left implicit
JoinOut(name) == name

----------------------------------------------------------------------------
(* Time *)

\* time.Unix(ms/1000, 0)
UnixOfMs(ms) == ms \div MsPerSec

IsZero(t) == t = ZeroTimeUnix

----------------------------------------------------------------------------
(* Stored values and the record decoder (json.Unmarshal into ChatRecord) *)

\* A stored value is the text "[]", a text that is not JSON, or a JSON
\* object; an object is a record holding the fields present in the payload.
ArrayValue == [kind |-> "array"]
GarbageValue == [kind |-> "garbage"]
ObjectValue(obj) == [kind |-> "object", obj |-> obj]

Get(obj, f, default) == IF f \in DOMAIN obj THEN obj[f] ELSE default

\* Message: absent fields take the zero value
DecodeMessage(m) ==
    [Type           |-> Get(m, "type", 0),
     Text           |-> Get(m, "text", <<>>),
     FileSelections |-> Get(m, "fileSelections", <<>>),
     Selections     |-> Get(m, "selections", <<>>),
     ClientEndTime  |-> Get(m, "clientEndTime", 0),
     CodeBlocks     |-> Get(m, "codeBlocks", <<>>)]

\* ChatRecord: EndedAt carries no json tag, so a payload field "EndedAt"
\* is decoded into it like any other field
DecodeRecord(obj) ==
    [Conversation   |-> [i \in 1..Len(Get(obj, "conversation", <<>>)) |->
                            DecodeMessage(obj.conversation[i])],
     Name           |-> Get(obj, "name", <<>>),
     FileSelections |-> Get(obj, "fileSelections", <<>>),
     CreatedAt      |-> Get(obj, "createdAt", 0),
     EndedAt        |-> Get(obj, "EndedAt", 0)]

ZeroRecord == DecodeRecord([status |-> <<>>])

\* json.Unmarshal([]byte(value), &record): an array or a non-JSON text
\* cannot be decoded into the struct
Unmarshal(value) ==
    IF value.kind = "object"
    THEN [ok |-> TRUE, record |-> DecodeRecord(value.obj)]
    ELSE [ok |-> FALSE, record |-> ZeroRecord]

\* mutant of IsSpecialRow: the skip of special rows is missing
NoSpecialRow(key, value) == FALSE

\* value == "[]" || key == "inlineDiffsData"
IsSpecialRow(key, value) == value = ArrayValue \/ key = InlineDiffsKey

----------------------------------------------------------------------------
(* Validity filter *)

\* mutant of validityRule: the prefix test is missing
validityRuleNoPrefix(record) ==
    IF Len(record.Conversation) = 0 THEN "noTurns" ELSE "valid"

\* The return statement hasValidContent leaves by
validityRule(record) ==
    IF HasPrefix(record.Name, Prefix) THEN "prefix"
    ELSE IF Len(record.Conversation) = 0 THEN "noTurns"
    ELSE "valid"

hasValidContent(record) == validityRule(record) = "valid"

----------------------------------------------------------------------------
(* Recomputation of EndedAt from the last turn, at each place the code does it *)

LastEnd(record) ==
    IF Len(record.Conversation) > 0
    THEN [record EXCEPT !.EndedAt = record.Conversation[Len(record.Conversation)].ClientEndTime]
    ELSE record

scanEndedAt(record) == LastEnd(record)

filterEndedAt(record) == LastEnd(record)

renderEndedAt(record) == LastEnd(record)

singleEndedAt(record) == LastEnd(record)

----------------------------------------------------------------------------
(* Time-range filter *)

\* main: the four parsed bounds and HasTimeFilter
MakeConfig(sa, sb, ea, eb) ==
    [StartAfter |-> sa, StartBefore |-> sb, EndAfter |-> ea, EndBefore |-> eb,
     HasTimeFilter |-> ~IsZero(sa) \/ ~IsZero(sb) \/ ~IsZero(ea) \/ ~IsZero(eb)]

\* mutant of isInTimeRange: the end bounds are applied to an unresolved end time too
isInTimeRangeNoEndGuard(c, record) ==
    IF ~c.HasTimeFilter THEN TRUE
    ELSE
      LET startTime == UnixOfMs(record.CreatedAt)
          rec == filterEndedAt(record)
          endTime == IF rec.EndedAt > 0 THEN UnixOfMs(rec.EndedAt) ELSE ZeroTimeUnix
      IN  IF ~IsZero(c.StartAfter) /\ startTime < c.StartAfter THEN FALSE
          ELSE IF ~IsZero(c.StartBefore) /\ startTime > c.StartBefore THEN FALSE
          ELSE IF ~IsZero(c.EndAfter) /\ endTime < c.EndAfter THEN FALSE
          ELSE IF ~IsZero(c.EndBefore) /\ endTime > c.EndBefore THEN FALSE
          ELSE TRUE

\* mutant of isInTimeRange: a start time equal to a bound is rejected
isInTimeRangeStrict(c, record) ==
    IF ~c.HasTimeFilter THEN TRUE
    ELSE
      LET startTime == UnixOfMs(record.CreatedAt)
          rec == filterEndedAt(record)
          endTime == IF rec.EndedAt > 0 THEN UnixOfMs(rec.EndedAt) ELSE ZeroTimeUnix
      IN  IF ~IsZero(c.StartAfter) /\ startTime <= c.StartAfter THEN FALSE
          ELSE IF ~IsZero(c.StartBefore) /\ startTime >= c.StartBefore THEN FALSE
          ELSE IF rec.EndedAt > 0 /\ ~IsZero(c.EndAfter) /\ endTime < c.EndAfter THEN FALSE
          ELSE IF rec.EndedAt > 0 /\ ~IsZero(c.EndBefore) /\ endTime > c.EndBefore THEN FALSE
          ELSE TRUE

isInTimeRange(c, record) ==
    IF ~c.HasTimeFilter THEN TRUE
    ELSE
      LET startTime == UnixOfMs(record.CreatedAt)
          rec == filterEndedAt(record)
          endTime == IF rec.EndedAt > 0 THEN UnixOfMs(rec.EndedAt) ELSE ZeroTimeUnix
      IN  IF ~IsZero(c.StartAfter) /\ startTime < c.StartAfter THEN FALSE
          ELSE IF ~IsZero(c.StartBefore) /\ startTime > c.StartBefore THEN FALSE
          ELSE IF rec.EndedAt > 0 /\ ~IsZero(c.EndAfter) /\ endTime < c.EndAfter THEN FALSE
          ELSE IF rec.EndedAt > 0 /\ ~IsZero(c.EndBefore) /\ endTime > c.EndBefore THEN FALSE
          ELSE TRUE

\* The EndedAt value isInTimeRange reads (none when the filter is off)
filterReads(c, record) ==
    IF c.HasTimeFilter THEN {filterEndedAt(record).EndedAt} ELSE {}

----------------------------------------------------------------------------
(* File naming *)

\* mutant of generateNumberedFileName: descending numbers count down from the total
generateNumberedFileNameCountdown(totalSessions, index, descending, name) ==
    LET digits == Len(FormatInt(totalSessions))
        number == IF descending THEN totalSessions - index ELSE index + 1
        numberStr == ZeroPad(digits, number)
        name1 == IF IsBlank(name) THEN Untitled ELSE name
        safeName == ReplaceUnsafe(name1)
    IN  numberStr \o <<"-">> \o safeName \o DotMd

\* mutant of generateNumberedFileName: the number is the zero-based index
generateNumberedFileNameFromZero(totalSessions, index, descending, name) ==
    LET digits == Len(FormatInt(totalSessions))
        number == index
        numberStr == ZeroPad(digits, number)
        name1 == IF IsBlank(name) THEN Untitled ELSE name
        safeName == ReplaceUnsafe(name1)
    IN  numberStr \o <<"-">> \o safeName \o DotMd

generateNumberedFileName(totalSessions, index, descending, name) ==
    LET digits == Len(FormatInt(totalSessions))
        number == IF descending THEN index + 1 ELSE index + 1
        numberStr == ZeroPad(digits, number)
        name1 == IF IsBlank(name) THEN Untitled ELSE name
        safeName == ReplaceUnsafe(name1)
    IN  numberStr \o <<"-">> \o safeName \o DotMd

\* exportSessions, by-title branch: the sanitized name without extension
exportSafeName(name) ==
    LET safeName == ReplaceUnsafe(name)
    IN  IF IsBlank(safeName) THEN Untitled ELSE safeName

\* exportSingleSession, by-title branch: the file to write
singleFileName(name) ==
    LET safeName == ReplaceUnsafe(name)
    IN  JoinOut((IF IsBlank(safeName) THEN Untitled ELSE safeName) \o DotMd)

\* t.Format("20060102-150405") for a second t of 1970-01-01
Timestamp(t) ==
    <<"1","9","7","0","0","1","0","1","-">>
        \o ZeroPad(2, (t \div 3600) % 24) \o ZeroPad(2, (t \div 60) % 60) \o ZeroPad(2, t % 60)

----------------------------------------------------------------------------
(* Markdown renderer: the document is the sequence of pieces written to the *)
(* strings.Builder, one Line per WriteString                                *)

Line(k, s, n, l) == [k |-> k, s |-> s, n |-> n, l |-> l]

RECURSIVE StripSlashes(_)
StripSlashes(p) ==
    IF Len(p) > 0 /\ p[Len(p)] = "/" THEN StripSlashes(SubSeq(p, 1, Len(p) - 1)) ELSE p

RECURSIVE AfterLastSlash(_)
AfterLastSlash(p) ==
    IF \E i \in 1..Len(p) : p[i] = "/"
    THEN AfterLastSlash(SubSeq(p, (CHOOSE i \in 1..Len(p) : p[i] = "/") + 1, Len(p)))
    ELSE p

\* filepath.Base(path)
Base(path) ==
    IF path = <<>> THEN <<".">>
    ELSE IF StripSlashes(path) = <<>> THEN <<"/">>
    ELSE AfterLastSlash(StripSlashes(path))

\* fmt.Sprintf("[%s](%s)", filepath.Base(path), path)
Link(path) == [base |-> Base(path), path |-> path]

Links(paths) == [i \in 1..Len(paths) |-> Link(paths[i])]

RECURSIVE RenderSelections(_)
RenderSelections(sels) ==
    IF sels = <<>> THEN <<>>
    ELSE (IF sels[1].path # <<>> THEN <<Line("from", <<>>, 0, <<Link(sels[1].path)>>)>> ELSE <<>>)
         \o <<Line("snippet", sels[1].text, 0, <<>>)>>
         \o RenderSelections(Tail(sels))

RECURSIVE RenderBlocksAll(_)
\* mutant of RenderBlocks: a block with empty content is fenced too
RenderBlocksAll(blocks) ==
    IF blocks = <<>> THEN <<>>
    ELSE <<Line("fence", blocks[1].languageId, 0,
                IF blocks[1].path # <<>> THEN <<Link(blocks[1].path)>> ELSE <<>>),
           Line("code", blocks[1].content, 0, <<>>),
           Line("fenceEnd", <<>>, 0, <<>>)>>
         \o RenderBlocksAll(Tail(blocks))

RECURSIVE RenderBlocks(_)
RenderBlocks(blocks) ==
    IF blocks = <<>> THEN <<>>
    ELSE (IF blocks[1].content # <<>>
          THEN <<Line("fence", blocks[1].languageId, 0,
                      IF blocks[1].path # <<>> THEN <<Link(blocks[1].path)>> ELSE <<>>),
                 Line("code", blocks[1].content, 0, <<>>),
                 Line("fenceEnd", <<>>, 0, <<>>)>>
          ELSE <<>>)
         \o RenderBlocks(Tail(blocks))

\* mutant of RenderTurn: a turn of another role is rendered as an assistant turn
RenderTurnAnyRole(msg) ==
    IF msg.Type = 1 THEN
        <<Line("## User", <<>>, 0, <<>>)>>
        \o (IF Len(msg.FileSelections) > 0
            THEN <<Line("refFiles", <<>>, 0, Links(msg.FileSelections))>> ELSE <<>>)
        \o (IF Len(msg.Selections) > 0
            THEN <<Line("snippets", <<>>, 0, <<>>)>> \o RenderSelections(msg.Selections)
            ELSE <<>>)
        \o <<Line("quote", msg.Text, 0, <<>>)>>
    ELSE <<Line("## Cursor", <<>>, 0, <<>>), Line("text", msg.Text, 0, <<>>)>>
         \o RenderBlocks(msg.CodeBlocks)

RenderTurn(msg) ==
    IF msg.Type = 1 THEN
        <<Line("## User", <<>>, 0, <<>>)>>
        \o (IF Len(msg.FileSelections) > 0
            THEN <<Line("refFiles", <<>>, 0, Links(msg.FileSelections))>> ELSE <<>>)
        \o (IF Len(msg.Selections) > 0
            THEN <<Line("snippets", <<>>, 0, <<>>)>> \o RenderSelections(msg.Selections)
            ELSE <<>>)
        \o <<Line("quote", msg.Text, 0, <<>>)>>
    ELSE IF msg.Type = 2 THEN
        <<Line("## Cursor", <<>>, 0, <<>>), Line("text", msg.Text, 0, <<>>)>>
        \o RenderBlocks(msg.CodeBlocks)
    ELSE <<>>

RECURSIVE RenderTurns(_)
RenderTurns(conv) ==
    IF conv = <<>> THEN <<>> ELSE RenderTurn(conv[1]) \o RenderTurns(Tail(conv))

convertToMarkdown(record) ==
    LET rec == renderEndedAt(record)
    IN  <<Line("# title", rec.Name, 0, <<>>),
          Line("## info", <<>>, 0, <<>>),
          Line("start", <<>>, UnixOfMs(rec.CreatedAt), <<>>)>>
        \o (IF rec.EndedAt > 0
            THEN <<Line("end", <<>>, UnixOfMs(rec.EndedAt), <<>>)>> ELSE <<>>)
        \o (IF Len(rec.FileSelections) > 0
            THEN <<Line("related", <<>>, 0, Links(rec.FileSelections))>> ELSE <<>>)
        \o <<Line("blank", <<>>, 0, <<>>)>>
        \o RenderTurns(rec.Conversation)

\* The EndedAt value convertToMarkdown reads
renderReads(record) == renderEndedAt(record).EndedAt

----------------------------------------------------------------------------
(* Store contents the model draws from *)

KeyA == Prefix \o <<"a">>
KeyB == Prefix \o <<"b">>
KeyBare == <<"a">>

\* two turns, end time resolved
PayA ==
    [name |-> <<"a">>, createdAt |-> 1000,
     fileSelections |-> << <<"/","p","/","f">> >>,
     conversation |-> <<
        [type |-> 1, text |-> <<"q">>,
         fileSelections |-> << <<"f">> >>,
         selections |-> << [text |-> <<"s">>, path |-> <<"f">>], [text |-> <<"t">>, path |-> <<>>] >>],
        [type |-> 2, text |-> <<"r">>, clientEndTime |-> 2500,
         codeBlocks |-> << [path |-> <<"d","/","f">>, content |-> <<"x">>, languageId |-> <<"g","o">>],
                           [path |-> <<>>, content |-> <<>>, languageId |-> <<"g","o">>] >>] >>]

\* same title, later start, end time unresolved, an EndedAt field in the payload
PayB ==
    [name |-> <<"a">>, createdAt |-> 2999, EndedAt |-> 5000,
     conversation |-> << [type |-> 1, text |-> <<"q">>], [type |-> 3, text |-> <<"n">>] >>]

\* no name in the payload
PayNoName ==
    [createdAt |-> 3000,
     conversation |-> << [type |-> 1, text |-> <<"q">>, clientEndTime |-> 3999] >>]

\* turns without any text
PayEmptyText ==
    [name |-> <<"e">>, createdAt |-> 2000,
     conversation |-> << [type |-> 1], [type |-> 2, text |-> <<>>, clientEndTime |-> 1] >>]

\* no turns, an EndedAt field in the payload
PayNoTurns == [name |-> <<"n">>, createdAt |-> 1000, EndedAt |-> 5000]

\* the title restates the key prefix
PayPrefixTitle ==
    [name |-> Prefix \o <<"a">>, createdAt |-> 1000,
     conversation |-> << [type |-> 1, text |-> <<"q">>, clientEndTime |-> 1500] >>]

Row(k, v) == [key |-> k, value |-> v]

Entries ==
    { Row(KeyA, ObjectValue(PayA)),
      Row(KeyB, ObjectValue(PayB)),
      Row(KeyB, ObjectValue(PayA)),
      Row(KeyBare, ObjectValue(PayA)),
      Row(InlineDiffsKey, ObjectValue(PayA)),
      Row(InlineDiffsKey, ArrayValue),
      Row(KeyA, ArrayValue),
      Row(KeyA, ObjectValue(PayNoTurns)),
      Row(KeyB, GarbageValue),
      Row(KeyB, ObjectValue(PayNoTurns)),
      Row(KeyB, ObjectValue(PayPrefixTitle)),
      Row(KeyB, ObjectValue(PayEmptyText)),
      Row(KeyB, ObjectValue(PayNoName)) }

\* a key-value table: no two rows share a key
Stores ==
    { st \in UNION { [1..n -> Entries] : n \in 0..MaxRows } :
        \A i, j \in 1..Len(st) : i # j => st[i].key # st[j].key }

\* mutant of Lookup: the key is not compared
LookupAny(st, key) == { st[i].value : i \in 1..Len(st) }

\* SELECT value FROM cursorDiskKV WHERE key = ?
Lookup(st, key) == { st[i].value : i \in { j \in 1..Len(st) : st[j].key = key } }

----------------------------------------------------------------------------
(* Command lines *)

\* A time argument is the empty string, a text in one of the layouts
\* (its instant is unix), or a text in none of them.
formats == <<"2006-01-02", "2006-01-02 15:04", "2006-01-02 15:04:05">>

NoArg == [kind |-> "empty", unix |-> ZeroTimeUnix]
TimeArgOf(t) == [kind |-> "time", unix |-> t]
TimeArgIn(layout, t) == [kind |-> "time", layout |-> layout, unix |-> t]
BadArg == [kind |-> "bad", unix |-> ZeroTimeUnix]

\* time.ParseInLocation(format, timeStr, time.Local) succeeds
ParsesAs(a, format) ==
    a.kind = "time" /\ (("layout" \in DOMAIN a) => a.layout = format)

\* mutant of parseTimeArg: a text in none of the layouts is taken as no bound
parseTimeArgLenient(a) ==
    IF a.kind = "empty" THEN [err |-> FALSE, t |-> ZeroTimeUnix]
    ELSE IF \E i \in 1..Len(formats) : ParsesAs(a, formats[i]) THEN [err |-> FALSE, t |-> a.unix]
    ELSE [err |-> FALSE, t |-> ZeroTimeUnix]

\* parseTimeArg
parseTimeArg(a) ==
    IF a.kind = "empty" THEN [err |-> FALSE, t |-> ZeroTimeUnix]
    ELSE IF \E i \in 1..Len(formats) : ParsesAs(a, formats[i]) THEN [err |-> FALSE, t |-> a.unix]
    ELSE [err |-> TRUE, t |-> ZeroTimeUnix]

TimeArgs(sa, sb, ea, eb) == [startAfter |-> sa, startBefore |-> sb, endAfter |-> ea, endBefore |-> eb]

NoTimeArgs == TimeArgs(NoArg, NoArg, NoArg, NoArg)

TimeArgSets ==
    { NoTimeArgs,
      TimeArgs(TimeArgOf(2), NoArg, NoArg, NoArg),
      TimeArgs(NoArg, NoArg, NoArg, TimeArgOf(2)),
      TimeArgs(NoArg, NoArg, BadArg, NoArg),
      TimeArgs(BadArg, NoArg, NoArg, TimeArgIn(formats[3], 2)),
      TimeArgs(TimeArgIn(formats[2], 1), BadArg, NoArg, NoArg),
      TimeArgs(NoArg, NoArg, TimeArgIn("2006/01/02", 1), BadArg) }

\* the value flag.BoolVar leaves for a flag given as "true" or "false" or not given
BoolFlag(given, default) == IF given = "absent" THEN default ELSE given = "true"

\* exportCmd.BoolVar(&config.SortDesc, "sort-desc", true, ...)
SortDescDefault == TRUE

\* sortFlag is the -sort-desc flag as given, sortDesc the parsed value
Args(cmd, hash, json, sortFlag, byName, times) ==
    [cmd |-> cmd, hash |-> hash, json |-> json, sortFlag |-> sortFlag,
     sortDesc |-> BoolFlag(sortFlag, SortDescDefault),
     byName |-> byName, times |-> times]

ArgSets ==
    { Args("ls", <<>>, j, "absent", FALSE, NoTimeArgs) : j \in BOOLEAN }
    \cup { Args("export", <<>>, a[1], f, a[2], t) :
             a \in BOOLEAN \X BOOLEAN, f \in {"absent", "true", "false"}, t \in TimeArgSets }
    \cup { Args("export", h, a[1], "absent", a[2], NoTimeArgs) :
             h \in {<<"a">>, <<"b">>, <<"z">>}, a \in BOOLEAN \X BOOLEAN }

NoConfig == [set |-> FALSE]

----------------------------------------------------------------------------
(* Output *)

\* one fmt.Println / fmt.Printf group: a JSON response or console text
Msg(fmt, what, success, total, items) ==
    [fmt |-> fmt, what |-> what, success |-> success, total |-> total, items |-> items]

\* mutant of ExportFailure: the failure is reported as a success
ExportFailureAsSuccess(json, what) ==
    IF json THEN Msg("json", what, TRUE, 0, <<>>) ELSE Msg("text", what, TRUE, 0, <<>>)

\* main's report of an error returned by exportSessions / exportSingleSession
ExportFailure(json, what) ==
    IF json THEN Msg("json", what, FALSE, 0, <<>>) ELSE Msg("text", what, FALSE, 0, <<>>)

Exists(fs, path) == \E f \in fs : f.path = path

\* ioutil.WriteFile(path, doc, 0644); from is history: the key whose value was rendered
WriteFile(fs, path, doc, from) ==
    { f \in fs : f.path # path } \cup { [path |-> path, doc |-> doc, from |-> from] }

\* history: what happened to the item read from row number src
Event(ev, src, path) == [ev |-> ev, src |-> src, path |-> path]

\* mutant of setOutputPath: the path is never filled in
keepOutputPath(seq, i, mdFile) == seq

\* exportedSessions[i].OutputPath = mdFile
setOutputPath(seq, i, mdFile) == [seq EXCEPT ![i].OutputPath = mdFile]

----------------------------------------------------------------------------
(* Sorting: sort.Slice leaves the order of elements the comparison does not *)
(* separate unspecified                                                      *)

Sorted(seq, desc) ==
    { r \in { [i \in 1..Len(seq) |-> seq[p[i]]] :
                p \in { q \in [1..Len(seq) -> 1..Len(seq)] :
                          \A i, j \in 1..Len(seq) : i # j => q[i] # q[j] } } :
        \A i, j \in 1..Len(r) :
            i < j => IF desc THEN ~(r[j].StartTime > r[i].StartTime)
                             ELSE ~(r[j].StartTime < r[i].StartTime) }

\* mutant of sortExportedSessions: the order asked for is ignored
sortAscendingOnly(seq, descending) == Sorted(seq, FALSE)

\* sortExportedSessions(sessions, descending)
sortExportedSessions(seq, descending) == Sorted(seq, descending)

\* listSessions: sort.Slice by StartTime.Before
sortListed(seq) == Sorted(seq, FALSE)

----------------------------------------------------------------------------
(* Initial state *)

NameIdle == [kind |-> "idle"]

\* a file the output directory holds before the run (from is empty: it was
\* not rendered from the store)
OldFile(path) == [path |-> path, doc |-> <<>>, from |-> <<>>]

\* the output directory before the run
OutputDirs == { {}, {OldFile(JoinOut(<<"a">> \o DotMd))} }

Init ==
    /\ store \in Stores
    /\ args \in ArgSets
    /\ config = NoConfig
    /\ pc = "main"
    /\ cursor = 0
    /\ sessions = <<>>
    /\ idx = 0
    /\ files \in OutputDirs
    /\ out = <<>>
    /\ ferr = ""
    /\ trace = {}
    /\ log = {}
    /\ nm = NameIdle

----------------------------------------------------------------------------
(* main *)

\* case "ls"
MainLs ==
    /\ pc = "main" /\ args.cmd = "ls"
    /\ \E resolved \in BOOLEAN :
         IF resolved
         THEN pc' = "ls_open" /\ out' = out
         ELSE pc' = "done" /\ out' = Append(out, Msg("text", "noDefaultPath", FALSE, 0, <<>>))
    /\ UNCHANGED <<store, args, config, cursor, sessions, idx, files, ferr, trace, log, nm>>

\* case "export" with a hash argument
MainSingle ==
    /\ pc = "main" /\ args.cmd = "export" /\ args.hash # <<>>
    /\ \E resolved \in BOOLEAN :
         IF resolved
         THEN pc' = "single" /\ out' = out
         ELSE pc' = "done" /\ out' = Append(out, ExportFailure(args.json, "noDefaultPath"))
    /\ UNCHANGED <<store, args, config, cursor, sessions, idx, files, ferr, trace, log, nm>>

\* case "export" without a hash argument: parse the time arguments, build Config
MainExport ==
    /\ pc = "main" /\ args.cmd = "export" /\ args.hash = <<>>
    /\ LET sa == parseTimeArg(args.times.startAfter)
           sb == parseTimeArg(args.times.startBefore)
           ea == parseTimeArg(args.times.endAfter)
           eb == parseTimeArg(args.times.endBefore)
       IN  IF sa.err \/ sb.err \/ ea.err \/ eb.err
           THEN /\ pc' = "done"
                /\ out' = Append(out, ExportFailure(args.json, "badTimeArg"))
                /\ config' = config
           ELSE \E resolved \in BOOLEAN :
                  IF resolved
                  THEN /\ pc' = "ex_open"
                       /\ out' = out
                       /\ config' = MakeConfig(sa.t, sb.t, ea.t, eb.t)
                  ELSE /\ pc' = "done"
                       /\ out' = Append(out, Msg("text", "noDefaultPath", FALSE, 0, <<>>))
                       /\ config' = config
    /\ UNCHANGED <<store, args, cursor, sessions, idx, files, ferr, trace, log, nm>>

----------------------------------------------------------------------------
(* ls *)

\* listSessions up to the query; an error returned to main is printed as text
ListOpen ==
    /\ pc = "ls_open"
    /\ \E o \in {"ok", "missing", "openFailed", "queryFailed"} :
         IF o = "ok" THEN /\ pc' = "ls_scan"
                          /\ UNCHANGED <<out, ferr>>
         ELSE /\ pc' = "done"
              /\ IF o # "queryFailed" /\ args.json
                 THEN /\ out' = Append(out, Msg("json", o, FALSE, 0, <<>>))
                      /\ ferr' = ferr
                 ELSE /\ out' = Append(out, Msg("text", o, FALSE, 0, <<>>))
                      /\ ferr' = o
    /\ UNCHANGED <<store, args, config, cursor, sessions, idx, files, trace, log, nm>>

\* the body of the scan loop of listSessions for one scanned row, number n
\* (src is history: the number of the row the session was read from)
listRow(acc, row, n) ==
    IF IsSpecialRow(row.key, row.value) THEN acc
    ELSE LET u == Unmarshal(row.value)
         IN  IF ~u.ok THEN acc
             ELSE IF ~hasValidContent(u.record) THEN acc
             ELSE LET record == scanEndedAt(u.record)
                  IN  Append(acc, [Hash      |-> TrimPrefix(row.key, Prefix),
                                   Title     |-> record.Name,
                                   StartTime |-> UnixOfMs(record.CreatedAt),
                                   EndTime   |-> UnixOfMs(record.EndedAt),
                                   src       |-> n])

ListScanRow ==
    /\ pc = "ls_scan" /\ cursor < Len(store)
    /\ cursor' = cursor + 1
    /\ \E scanFailed \in BOOLEAN :
         IF scanFailed
         THEN /\ sessions' = sessions
              /\ log' = log \cup {Event("scanFailed", cursor + 1, <<>>)}
         ELSE /\ sessions' = listRow(sessions, store[cursor + 1], cursor + 1)
              /\ log' = log
    /\ UNCHANGED <<store, args, config, pc, idx, files, out, ferr, trace, nm>>

\* one line of the text table: the END TIME column is the marker for a zero
\* EndTime and the date otherwise
tableRow(s) ==
    [Hash |-> s.Hash, Title |-> s.Title, StartTime |-> s.StartTime, EndTime |-> s.EndTime,
     src |-> s.src,
     endTimeStr |-> IF IsZero(s.EndTime) THEN "notEnded" ELSE "date"]

\* listSessions after the loop
ListReport ==
    /\ pc = "ls_scan" /\ cursor = Len(store)
    /\ pc' = "done"
    /\ IF args.json
       THEN /\ out' = Append(out, Msg("json", "sessions", TRUE, Len(sessions), sessions))
            /\ sessions' = sessions
       ELSE IF Len(sessions) = 0
       THEN /\ out' = Append(out, Msg("text", "noSessions", TRUE, 0, <<>>))
            /\ sessions' = sessions
       ELSE /\ sessions' \in sortListed(sessions)
            /\ out' = Append(out, Msg("text", "table", TRUE, Len(sessions'),
                                      [i \in 1..Len(sessions') |-> tableRow(sessions'[i])]))
    /\ UNCHANGED <<store, args, config, cursor, idx, files, ferr, trace, log, nm>>

----------------------------------------------------------------------------
(* batch export *)

\* exportSessions up to the query; main reports a returned error
ExportOpen ==
    /\ pc = "ex_open"
    /\ \E o \in {"ok", "missing", "openFailed", "mkdirFailed", "queryFailed"} :
         IF o = "ok" THEN /\ pc' = "ex_scan"
                          /\ UNCHANGED <<out, ferr>>
         ELSE /\ pc' = "done"
              /\ out' = Append(out, ExportFailure(args.json, o))
              /\ ferr' = IF o = "missing" /\ args.json THEN ferr ELSE o
    /\ UNCHANGED <<store, args, config, cursor, sessions, idx, files, trace, log, nm>>

\* whether the scan loop of exportSessions keeps the decoded record of a row
exportKeeps(row) ==
    /\ ~IsSpecialRow(row.key, row.value)
    /\ Unmarshal(row.value).ok
    /\ hasValidContent(Unmarshal(row.value).record)
    /\ isInTimeRange(config, scanEndedAt(Unmarshal(row.value).record))

\* mutant of exportRow: the descriptor is given its output path while the scan runs
exportRowWriting(acc, row, n) ==
    IF ~exportKeeps(row) THEN acc
    ELSE LET record == scanEndedAt(Unmarshal(row.value).record)
         IN  Append(acc, [Hash       |-> TrimPrefix(row.key, Prefix),
                          Title      |-> record.Name,
                          OutputPath |-> JoinOut(exportSafeName(record.Name) \o DotMd),
                          StartTime  |-> UnixOfMs(record.CreatedAt),
                          EndTime    |-> UnixOfMs(record.EndedAt),
                          src        |-> n])

\* the body of the scan loop of exportSessions for one scanned row, number n
exportRow(acc, row, n) ==
    IF ~exportKeeps(row) THEN acc
    ELSE LET record == scanEndedAt(Unmarshal(row.value).record)
         IN  Append(acc, [Hash       |-> TrimPrefix(row.key, Prefix),
                          Title      |-> record.Name,
                          OutputPath |-> <<>>,
                          StartTime  |-> UnixOfMs(record.CreatedAt),
                          EndTime    |-> UnixOfMs(record.EndedAt),
                          src        |-> n])

\* what isInTimeRange read while the row was scanned
exportRowReads(row) ==
    IF ~IsSpecialRow(row.key, row.value) /\ Unmarshal(row.value).ok
       /\ hasValidContent(Unmarshal(row.value).record)
    THEN { [site |-> "filter", key |-> row.key, read |-> e] :
             e \in filterReads(config, scanEndedAt(Unmarshal(row.value).record)) }
    ELSE {}

ExportScanRow ==
    /\ pc = "ex_scan" /\ cursor < Len(store)
    /\ cursor' = cursor + 1
    /\ \E scanFailed \in BOOLEAN :
         IF scanFailed
         THEN /\ UNCHANGED <<sessions, trace>>
              /\ log' = log \cup {Event("scanFailed", cursor + 1, <<>>)}
         ELSE /\ sessions' = exportRow(sessions, store[cursor + 1], cursor + 1)
              /\ trace' = trace \cup exportRowReads(store[cursor + 1])
              /\ log' = log
    /\ UNCHANGED <<store, args, config, pc, idx, files, out, ferr, nm>>

ExportSort ==
    /\ pc = "ex_scan" /\ cursor = Len(store)
    /\ sessions' \in sortExportedSessions(sessions, args.sortDesc)
    /\ pc' = "ex_write"
    /\ idx' = 0
    /\ UNCHANGED <<store, args, config, cursor, files, out, ferr, trace, log, nm>>

\* the file exportSessions writes item i (zero-based) of total to
exportFileName(total, i, session, record, fs) ==
    IF args.byName
    THEN JoinOut(generateNumberedFileName(total, i, args.sortDesc, record.Name))
    ELSE LET safeName == exportSafeName(record.Name)
         IN  IF Exists(fs, JoinOut(safeName \o DotMd))
             THEN JoinOut(safeName \o <<"-">> \o Timestamp(session.StartTime) \o DotMd)
             ELSE JoinOut(safeName \o DotMd)

\* one iteration of the write loop of exportSessions
ExportItem ==
    /\ pc = "ex_write" /\ idx < Len(sessions)
    /\ idx' = idx + 1
    /\ LET session == sessions[idx + 1]
           key == Prefix \o session.Hash
           found == Lookup(store, key)
       IN  \E fetchFailed \in BOOLEAN, writeFailed \in BOOLEAN :
             IF found = {} \/ fetchFailed
             THEN /\ UNCHANGED <<sessions, files, trace>>
                  /\ log' = log \cup {Event(IF found = {} THEN "noRows" ELSE "fetchFailed",
                                             session.src, <<>>)}
             ELSE LET u == Unmarshal(CHOOSE v \in found : TRUE)
                      mdContent == convertToMarkdown(u.record)
                      mdFile == exportFileName(Len(sessions), idx, session, u.record, files)
                  IN  IF ~u.ok
                      THEN /\ UNCHANGED <<sessions, files, trace>>
                           /\ log' = log \cup {Event("decodeFailed", session.src, <<>>)}
                      ELSE /\ trace' = trace \cup
                                 { [site |-> "render", key |-> key, read |-> renderReads(u.record)] }
                           /\ IF writeFailed
                              THEN /\ UNCHANGED <<sessions, files>>
                                   /\ log' = log \cup {Event("writeFailed", session.src, mdFile)}
                              ELSE /\ files' = WriteFile(files, mdFile, mdContent, key)
                                   /\ sessions' = setOutputPath(sessions, idx + 1, mdFile)
                                   /\ log' = log \cup {Event("written", session.src, mdFile)}
    /\ UNCHANGED <<store, args, config, pc, cursor, out, ferr, nm>>

\* exportSessions after the write loop, and main's closing line
ExportReport ==
    /\ pc = "ex_write" /\ idx = Len(sessions)
    /\ pc' = "done"
    /\ out' = Append(out, Msg(IF args.json THEN "json" ELSE "text", "exported",
                              TRUE, Len(sessions), sessions))
    /\ UNCHANGED <<store, args, config, cursor, sessions, idx, files, ferr, trace, log, nm>>

----------------------------------------------------------------------------
(* single-session export *)

\* the file exportSingleSession writes
singleTarget(record) ==
    IF args.byName
    THEN JoinOut(generateNumberedFileName(1, 0, args.sortDesc, record.Name))
    ELSE singleFileName(record.Name)

\* exportSingleSession(dbPath, outputDir, hash, ...) and main's report of its error
ExportSingle ==
    /\ pc = "single"
    /\ pc' = "done"
    /\ LET key == Prefix \o args.hash
           found == Lookup(store, key)
           u == Unmarshal(CHOOSE v \in found : TRUE)
           record == singleEndedAt(u.record)
           mdFile == singleTarget(record)
           fail(what) == /\ out' = Append(out, ExportFailure(args.json, what))
                         /\ UNCHANGED <<files, trace, log>>
       IN  \E o \in {"ok", "missing", "openFailed", "mkdirFailed", "queryFailed", "writeFailed"} :
             IF o \in {"missing", "openFailed", "mkdirFailed"}
             THEN fail(o) /\ ferr' = (IF o = "missing" /\ args.json THEN ferr ELSE o)
             ELSE IF o = "queryFailed"
             THEN fail(o) /\ ferr' = (IF args.json THEN ferr ELSE o)
             ELSE IF found = {}
             THEN fail("notFound") /\ ferr' = (IF args.json THEN ferr ELSE "notFound")
             ELSE IF ~u.ok
             THEN fail("decodeFailed") /\ ferr' = "decodeFailed"
             ELSE IF ~hasValidContent(u.record)
             THEN fail("invalid") /\ ferr' = "invalid"
             ELSE IF o = "writeFailed"
             THEN /\ out' = Append(out, ExportFailure(args.json, o))
                  /\ ferr' = o
                  /\ files' = files
                  /\ log' = log
                  /\ trace' = trace \cup
                        { [site |-> "render", key |-> key, read |-> renderReads(record)] }
             ELSE /\ files' = WriteFile(files, mdFile, convertToMarkdown(record), key)
                  /\ log' = log \cup {Event("written", 0, mdFile)}
                  /\ trace' = trace \cup
                        { [site |-> "render", key |-> key, read |-> renderReads(record)] }
                  /\ ferr' = ferr
                  /\ out' = Append(out,
                        Msg(IF args.json THEN "json" ELSE "text", "exported", TRUE, 1,
                            << [Hash       |-> args.hash,
                                Title      |-> record.Name,
                                OutputPath |-> mdFile,
                                StartTime  |-> UnixOfMs(record.CreatedAt),
                                EndTime    |-> UnixOfMs(record.EndedAt),
                                src        |-> CHOOSE i \in 1..Len(store) :
                                                  store[i].key = key] >>))
    /\ UNCHANGED <<store, args, config, cursor, sessions, idx, nm>>

----------------------------------------------------------------------------
(* The program *)

Next ==
    \/ MainLs
    \/ MainSingle
    \/ MainExport
    \/ ListOpen
    \/ ListScanRow
    \/ ListReport
    \/ ExportOpen
    \/ ExportScanRow
    \/ ExportSort
    \/ ExportItem
    \/ ExportReport
    \/ ExportSingle

Spec == Init /\ [][Next]_vars

----------------------------------------------------------------------------
(* The process at rest: the state of every variable the function-level *)
(* specifications below do not use                                     *)

Idle(at) ==
    /\ store = <<>>
    /\ args = Args("export", <<>>, FALSE, "absent", FALSE, NoTimeArgs)
    /\ config = NoConfig
    /\ pc = at
    /\ cursor = 0
    /\ sessions = <<>>
    /\ idx = 0
    /\ files = {}
    /\ out = <<>>
    /\ ferr = ""
    /\ trace = {}
    /\ log = {}

IdleVars == <<store, args, config, pc, cursor, sessions, idx, files, out, ferr, trace, log>>

----------------------------------------------------------------------------
(* The validity filter on bounded records *)

NameSamples ==
    { <<>>, <<"a">>, Prefix, Prefix \o <<"a">>,
      SubSeq(Prefix, 1, Len(Prefix) - 1),
      <<"x">> \o Prefix,
      <<"c","o","m","p","o","s","e","r","d","a","t","a",":">> }

TurnSamples == { [type |-> ty, text |-> tx] : ty \in {1, 2}, tx \in {<<>>, <<"q">>} }

ConversationSamples == UNION { [1..n -> TurnSamples] : n \in 0..MaxTurns }

InitValid ==
    /\ Idle("valid")
    /\ \E n \in NameSamples, c \in ConversationSamples :
         nm = [kind |-> "valid", payload |-> [name |-> n, conversation |-> c],
               done |-> FALSE, rule |-> "none", res |-> FALSE]

\* decode the payload and apply hasValidContent
ValidStep ==
    /\ pc = "valid" /\ ~nm.done
    /\ LET record == Unmarshal(ObjectValue(nm.payload)).record
       IN  nm' = [nm EXCEPT !.done = TRUE, !.rule = validityRule(record),
                            !.res = hasValidContent(record)]
    /\ UNCHANGED IdleVars

SpecValid == InitValid /\ [][ValidStep]_vars

----------------------------------------------------------------------------
(* The time-range filter on bounded records and bounds *)

BoundSamples == {NoArg} \cup { TimeArgOf(t) : t \in 1..MaxSec }

MsSamples == {1} \cup { sec * MsPerSec + d : sec \in 0..(MaxSec + 1), d \in {0, MsPerSec - 1} }

InitTime ==
    /\ Idle("time")
    /\ \E sa \in BoundSamples, sb \in BoundSamples, ea \in BoundSamples, eb \in BoundSamples,
          c \in MsSamples, e \in MsSamples, raw \in {0, 5000} :
         nm = [kind |-> "time", times |-> TimeArgs(sa, sb, ea, eb),
               payload |-> [createdAt |-> c, EndedAt |-> raw,
                            conversation |-> << [type |-> 1, text |-> <<"q">>, clientEndTime |-> e] >>],
               done |-> FALSE, res |-> FALSE]

\* main's Config for the time arguments t
ConfigOf(t) ==
    MakeConfig(parseTimeArg(t.startAfter).t, parseTimeArg(t.startBefore).t,
               parseTimeArg(t.endAfter).t, parseTimeArg(t.endBefore).t)

\* exportSessions: decode, recompute EndedAt, apply isInTimeRange
TimeStep ==
    /\ pc = "time" /\ ~nm.done
    /\ LET record == scanEndedAt(Unmarshal(ObjectValue(nm.payload)).record)
       IN  nm' = [nm EXCEPT !.done = TRUE, !.res = isInTimeRange(ConfigOf(nm.times), record)]
    /\ UNCHANGED IdleVars

SpecTime == InitTime /\ [][TimeStep]_vars

----------------------------------------------------------------------------
(* File naming over a batch of nm.total items *)

\* the characters of a file name before its first "-"
NumericPrefix(f) ==
    IF \E i \in 1..Len(f) : f[i] = "-"
    THEN SubSeq(f, 1, (CHOOSE i \in 1..Len(f) : f[i] = "-" /\ \A j \in 1..(i - 1) : f[j] # "-") - 1)
    ELSE f

TitleChars == Unsafe \cup {"a", " ", "-"}

Titles == UNION { [1..n -> TitleChars] : n \in 0..MaxTitleLen }

InitName ==
    /\ Idle("name")
    /\ \E n \in 1..MaxTotal, d \in BOOLEAN, t \in Titles :
         nm = [kind |-> "name", total |-> n, descending |-> d, title |-> t, index |-> 0,
               numbered |-> <<>>, byTitle |-> <<>>, single |-> <<>>, prefixes |-> <<>>]

\* one iteration of the export loop over a batch of nm.total items titled
\* nm.title: the names the three naming sites give the item
NameStep ==
    /\ pc = "name" /\ nm.index < nm.total
    /\ LET f == generateNumberedFileName(nm.total, nm.index, nm.descending, nm.title)
       IN  nm' = [nm EXCEPT !.index = nm.index + 1,
                            !.numbered = f,
                            !.byTitle = JoinOut(exportSafeName(nm.title) \o DotMd),
                            !.single = singleFileName(nm.title),
                            !.prefixes = Append(nm.prefixes, NumericPrefix(f))]
    /\ UNCHANGED IdleVars

SpecName == InitName /\ [][NameStep]_vars

----------------------------------------------------------------------------
(* The renderer on bounded records *)

BlockPathed == [path |-> <<"d","/","f">>, content |-> <<"x">>, languageId |-> <<"g","o">>]
BlockBare == [path |-> <<>>, content |-> <<"y">>, languageId |-> <<>>]
BlockEmpty == [path |-> <<"d","/","f">>, content |-> <<>>, languageId |-> <<"g","o">>]

BlockSamples ==
    { <<>>, <<BlockPathed>>, <<BlockBare>>, <<BlockEmpty>>,
      <<BlockPathed, BlockEmpty, BlockBare>>, <<BlockEmpty, BlockEmpty>>, <<BlockBare, BlockPathed>> }

RenderTurnSamples ==
    { [type |-> 1, text |-> <<"q">>, fileSelections |-> f, selections |-> sl] :
        f \in { <<>>, << <<"f">> >> },
        sl \in { <<>>, << [text |-> <<"s">>, path |-> <<"f">>], [text |-> <<"t">>, path |-> <<>>] >> } }
    \cup { [type |-> 2, text |-> <<"r">>, clientEndTime |-> e, codeBlocks |-> b] :
              e \in {0, 2500}, b \in BlockSamples }
    \cup { [type |-> 3, text |-> <<"n">>, clientEndTime |-> 2500, codeBlocks |-> <<BlockPathed>>],
           [type |-> 0, text |-> <<"n">>, fileSelections |-> << <<"f">> >>] }

RenderConversations == UNION { [1..n -> RenderTurnSamples] : n \in 0..MaxTurns }

InitRender ==
    /\ Idle("render")
    /\ \E n \in {<<>>, <<"a">>}, e \in {0, 5000}, c \in RenderConversations,
          f \in { <<>>, << <<"/","p","/","f">>, <<"g">> >> } :
         nm = [kind |-> "render",
               payload |-> [name |-> n, createdAt |-> 1000, EndedAt |-> e,
                            fileSelections |-> f, conversation |-> c],
               done |-> FALSE, doc |-> <<>>]

\* decode the payload and render it
RenderStep ==
    /\ pc = "render" /\ ~nm.done
    /\ LET record == Unmarshal(ObjectValue(nm.payload)).record
       IN  nm' = [nm EXCEPT !.done = TRUE, !.doc = convertToMarkdown(record)]
    /\ UNCHANGED IdleVars

SpecRender == InitRender /\ [][RenderStep]_vars

----------------------------------------------------------------------------
(* What the claims speak about, read off the raw store *)

RawTurns(value) == IF value.kind = "object" THEN Get(value.obj, "conversation", <<>>) ELSE <<>>

RawName(value) == IF value.kind = "object" THEN Get(value.obj, "name", <<>>) ELSE <<>>

RawLastEnd(value) ==
    IF RawTurns(value) = <<>> THEN 0
    ELSE Get(RawTurns(value)[Len(RawTurns(value))], "clientEndTime", 0)

AllTextEmpty(value) ==
    /\ RawTurns(value) # <<>>
    /\ \A i \in 1..Len(RawTurns(value)) : Get(RawTurns(value)[i], "text", <<>>) = <<>>

Sentinel(row) == row.value = [kind |-> "array"] \/ row.key = InlineDiffsKey

\* every session summary or export descriptor accumulated or reported so far
Reported ==
    { sessions[i] : i \in 1..Len(sessions) }
    \cup UNION { { out[m].items[i] : i \in 1..Len(out[m].items) } : m \in 1..Len(out) }

\* the stored values a written document was rendered from
RenderedValues == UNION { Lookup(store, f.from) : f \in files }

----------------------------------------------------------------------------
(* C1 *)

\* C1: an entry whose value is "[]" or whose key is "inlineDiffsData" never
\* produces a session of the ls listing (text or JSON), an export descriptor
\* or a written document.
C1_SentinelNeverListedOrExported ==
    /\ \A s \in Reported : ~Sentinel(store[s.src])
    /\ \A f \in files : \A i \in 1..Len(store) : store[i].key = f.from => ~Sentinel(store[i])

\* a finished ls or export that reported a session while the store holds a
\* decodable entry under the key "inlineDiffsData"
C1_Witness ==
    /\ pc = "done" /\ Len(out) = 1 /\ out[1].success /\ out[1].total >= 1
    /\ \E i \in 1..Len(store) : store[i].key = InlineDiffsKey /\ store[i].value.kind = "object"

----------------------------------------------------------------------------
(* C2 *)

\* C2: a conversation that has turns, all with empty text, is rejected by the
\* validity filter: it is never listed and never exported.
C2_EmptyTextNeverListedOrExported ==
    /\ \A s \in Reported : ~AllTextEmpty(store[s.src].value)
    /\ \A v \in RenderedValues : ~AllTextEmpty(v)

----------------------------------------------------------------------------
(* C3 *)

\* C3: a conversation with zero turns is rejected by the validity filter,
\* so a zero-turn record is never listed and never exported.
C3_ZeroTurnsNeverListedOrExported ==
    /\ \A s \in Reported : RawTurns(store[s.src].value) # <<>>
    /\ \A v \in RenderedValues : RawTurns(v) # <<>>

----------------------------------------------------------------------------
(* C4 *)

\* C4: for an entry whose payload has no title, the title used for listing,
\* rendering and file naming is the store key of the entry.
C4_TitleDefaultsToKey ==
    \A s \in Reported : RawName(store[s.src].value) = <<>> => s.Title = store[s.src].key

----------------------------------------------------------------------------
(* C5 *)

StartsWithComposerData(name) ==
    /\ Len(name) >= 13
    /\ \A i \in 1..13 : name[i] = <<"c","o","m","p","o","s","e","r","D","a","t","a",":">>[i]

\* C5: the validity filter rejects every conversation whose title begins with
\* "composerData:", whatever its turns, and it does so by the first of its
\* checks (before the zero-turn check).
C5_PrefixTitleRejectedFirst ==
    (nm.kind = "valid" /\ nm.done /\ StartsWithComposerData(nm.payload.name))
        => (nm.res = FALSE /\ nm.rule = "prefix")

\* the filter has judged a prefixed title whose turns all carry text
C5_Witness ==
    /\ nm.kind = "valid" /\ nm.done /\ StartsWithComposerData(nm.payload.name)
    /\ Len(nm.payload.conversation) >= 1
    /\ \A i \in 1..Len(nm.payload.conversation) : nm.payload.conversation[i].text # <<>>

----------------------------------------------------------------------------
(* C6 *)

\* C6: whenever the time-range filter or the renderer reads endedAt, it equals
\* the end-timing of the conversation's last turn, or 0 without turns; an
\* endedAt of the raw payload is never used.
C6_EndedAtRecomputed ==
    \A e \in trace : \A v \in Lookup(store, e.key) : e.read = RawLastEnd(v)

----------------------------------------------------------------------------
(* C7 *)

EndUnresolved(payload) == payload.conversation[Len(payload.conversation)].clientEndTime = 0

\* C7: for a conversation whose last turn's end-timing is 0, isInTimeRange
\* returns what it returns with endAfter and endBefore unset.
C7_UnresolvedEndIgnoresEndBounds ==
    (nm.kind = "time" /\ nm.done /\ EndUnresolved(nm.payload))
        => nm.res = isInTimeRange(
                       ConfigOf([nm.times EXCEPT !.endAfter = NoArg, !.endBefore = NoArg]),
                       scanEndedAt(Unmarshal(ObjectValue(nm.payload)).record))

\* an unresolved end passed the filter although both end bounds are set
C7_Witness ==
    /\ nm.kind = "time" /\ nm.done /\ EndUnresolved(nm.payload)
    /\ nm.times.endAfter.kind = "time" /\ nm.times.endBefore.kind = "time"
    /\ nm.res = TRUE

----------------------------------------------------------------------------
(* C8 *)

Unset(a) == a.kind = "empty"

RefStart(payload) == payload.createdAt \div 1000

RefEnd(payload) == payload.conversation[Len(payload.conversation)].clientEndTime \div 1000

RefInRange(payload, t) ==
    /\ Unset(t.startAfter) \/ RefStart(payload) >= t.startAfter.unix
    /\ Unset(t.startBefore) \/ RefStart(payload) <= t.startBefore.unix
    /\ \/ EndUnresolved(payload)
       \/ /\ Unset(t.endAfter) \/ RefEnd(payload) >= t.endAfter.unix
          /\ Unset(t.endBefore) \/ RefEnd(payload) <= t.endBefore.unix

\* C8: isInTimeRange equals the reference predicate: inclusive start bounds
\* that always apply, inclusive end bounds that apply to a resolved end only,
\* on stamps truncated to seconds; without bounds everything passes.
C8_FilterEqualsReference ==
    (nm.kind = "time" /\ nm.done) => (nm.res = RefInRange(nm.payload, nm.times))

\* a conversation whose start equals startAfter and whose resolved end equals
\* endBefore has passed the filter
C8_Witness ==
    /\ nm.kind = "time" /\ nm.done /\ nm.res = TRUE
    /\ nm.times.startAfter.kind = "time" /\ RefStart(nm.payload) = nm.times.startAfter.unix
    /\ ~EndUnresolved(nm.payload)
    /\ nm.times.endBefore.kind = "time" /\ RefEnd(nm.payload) = nm.times.endBefore.unix

----------------------------------------------------------------------------
(* C9 *)

DigitCount(n) == IF n < 10 THEN 1 ELSE IF n < 100 THEN 2 ELSE 3

IsDigit(c) == c \in {"0","1","2","3","4","5","6","7","8","9"}

DigitValue(c) == CHOOSE d \in 0..9 : DigitChars[d + 1] = c

RECURSIVE ParseDigits(_)
ParseDigits(p) ==
    IF p = <<>> THEN 0
    ELSE 10 * ParseDigits(SubSeq(p, 1, Len(p) - 1)) + DigitValue(p[Len(p)])

----------------------------------------------------------------------------
(* C10 *)

Nine == {"<", ">", ":", "\"", "/", "\\", "|", "?", "*"}

Blank(t) == \A i \in 1..Len(t) : t[i] \in {" ", "\t"}

\* stem is title with each of the nine characters replaced and nothing else changed
SanitizedTo(title, stem) ==
    /\ Len(stem) = Len(title)
    /\ \A i \in 1..Len(title) : stem[i] = (IF title[i] \in Nine THEN "_" ELSE title[i])

ExpectedStem(title, stem) ==
    IF Blank(title) THEN stem = <<"u","n","t","i","t","l","e","d">> ELSE SanitizedTo(title, stem)

HasMdSuffix(f) == Len(f) >= 3 /\ SubSeq(f, Len(f) - 2, Len(f)) = <<".","m","d">>

Stem(f) == SubSeq(f, 1, Len(f) - 3)

\* C10: by-title and by-sequence naming replace each of < > : " / \ | ? * by _
\* and change nothing else; a blank title gives untitled.md (by-sequence:
\* <prefix>-untitled.md).
C10_NamesAreSanitized ==
    (nm.kind = "name" /\ nm.index > 0) =>
        LET prefix == nm.prefixes[nm.index]
        IN  /\ HasMdSuffix(nm.byTitle) /\ ExpectedStem(nm.title, Stem(nm.byTitle))
            /\ HasMdSuffix(nm.single) /\ ExpectedStem(nm.title, Stem(nm.single))
            /\ HasMdSuffix(nm.numbered)
            /\ Len(nm.numbered) > Len(prefix) + 1
            /\ SubSeq(nm.numbered, 1, Len(prefix) + 1) = prefix \o <<"-">>
            /\ ExpectedStem(nm.title, SubSeq(Stem(nm.numbered), Len(prefix) + 2, Len(nm.numbered) - 3))

\* a title mixing a replaced character with a kept one has been named
C10_Witness ==
    /\ nm.kind = "name" /\ nm.index > 0
    /\ \E i \in 1..Len(nm.title) : nm.title[i] \in Nine
    /\ \E i \in 1..Len(nm.title) : nm.title[i] \notin Nine

----------------------------------------------------------------------------
(* C11 *)

\* the export loop has just written the document of item idx + 1 by title
WroteByTitle ==
    /\ pc = "ex_write" /\ ~args.byName /\ idx' = idx + 1
    /\ sessions'[idx + 1].OutputPath # <<>>

SanitizedTitle(title) ==
    IF Blank(title) THEN <<"u","n","t","i","t","l","e","d">>
    ELSE [i \in 1..Len(title) |-> IF title[i] \in Nine THEN "_" ELSE title[i]]

\* <title>-<YYYYMMDD-HHMMSS of the start second t>, t within 1970-01-01
Stamped(title, t) ==
    SanitizedTitle(title) \o <<"-","1","9","7","0","0","1","0","1","-">>
        \o <<DigitChars[((t \div 3600) \div 10) + 1], DigitChars[((t \div 3600) % 10) + 1],
             DigitChars[(((t \div 60) % 60) \div 10) + 1], DigitChars[(((t \div 60) % 60) % 10) + 1],
             DigitChars[((t % 60) \div 10) + 1], DigitChars[((t % 60) % 10) + 1]>>

\* C11: in batch by-title export an item whose <sanitized title>.md exists
\* when it is about to be written goes to <sanitized title>-<timestamp of its
\* start time>.md and the existing file stays as it is; otherwise the item
\* goes to <sanitized title>.md.
C11_CollisionGetsTimestamp ==
    [][ WroteByTitle =>
          LET item == sessions[idx + 1]
              base == SanitizedTitle(item.Title) \o <<".","m","d">>
              stamped == Stamped(item.Title, item.StartTime) \o <<".","m","d">>
              written == sessions'[idx + 1].OutputPath
          IN  IF \E f \in files : f.path = base
              THEN /\ written = stamped
                   /\ \E f \in files' : f.path = stamped
                   /\ \A f \in files : f.path = base => f \in files'
              ELSE /\ written = base
                   /\ \E f \in files' : f.path = base ]_vars

----------------------------------------------------------------------------
(* C12 *)

AscendingByStart(items) ==
    \A i \in 1..(Len(items) - 1) : items[i].StartTime <= items[i + 1].StartTime

\* C12: the session summaries ls reports are in ascending order of start
\* time, in the text table and in the -json sessions array alike.
C12_LsAscendingByStart ==
    \A m \in 1..Len(out) :
        out[m].what \in {"sessions", "table"} => AscendingByStart(out[m].items)

----------------------------------------------------------------------------
(* C13 *)

\* the order asked for on the command line: descending unless -sort-desc=false
DescendingAsked == args.sortFlag # "false"

OrderedByStart(items, desc) ==
    \A i \in 1..(Len(items) - 1) :
        IF desc THEN items[i].StartTime >= items[i + 1].StartTime
                ELSE items[i].StartTime <= items[i + 1].StartTime

SameItems(a, b) ==
    /\ Len(a) = Len(b)
    /\ \A x \in { a[i] : i \in 1..Len(a) } \cup { b[i] : i \in 1..Len(b) } :
          Cardinality({ i \in 1..Len(a) : a[i] = x }) = Cardinality({ i \in 1..Len(b) : b[i] = x })

\* C13: the sorted descriptor list of a batch export is a permutation of the
\* cataloged descriptors, non-increasing by start time when sort-desc is true
\* (also when the flag is not given) and non-decreasing when it is false; the
\* write loop takes the items in that order, numbers item i with i, and the
\* report lists them in that order.
C13_ExportOrder ==
    [][ /\ (pc = "ex_scan" /\ pc' = "ex_write") =>
              /\ SameItems(sessions, sessions')
              /\ OrderedByStart(sessions', DescendingAsked)
        /\ (pc = "ex_write" /\ pc' = "ex_write") =>
              /\ idx' = idx + 1
              /\ Len(sessions') = Len(sessions)
              /\ \A i \in 1..Len(sessions) : i # idx + 1 => sessions'[i] = sessions[i]
              /\ [sessions'[idx + 1] EXCEPT !.OutputPath = <<>>] = sessions[idx + 1]
              /\ (args.byName /\ sessions'[idx + 1].OutputPath # <<>>) =>
                    ParseDigits(NumericPrefix(sessions'[idx + 1].OutputPath)) = idx + 1
        /\ (pc = "ex_write" /\ pc' = "done") =>
              /\ idx = Len(sessions)
              /\ out'[Len(out')].items = sessions
              /\ OrderedByStart(out'[Len(out')].items, DescendingAsked) ]_vars

\* a batch export without the flag has written and reported two numbered
\* documents, the later session first
C13_Witness ==
    /\ pc = "done" /\ args.cmd = "export" /\ args.hash = <<>>
    /\ args.sortFlag = "absent" /\ args.byName
    /\ Len(out) = 1 /\ out[1].what = "exported" /\ Len(out[1].items) = 2
    /\ out[1].items[1].StartTime > out[1].items[2].StartTime
    /\ ParseDigits(NumericPrefix(out[1].items[1].OutputPath)) = 1
    /\ ParseDigits(NumericPrefix(out[1].items[2].OutputPath)) = 2

----------------------------------------------------------------------------
(* C14 *)

\* a stored value that decodes to a conversation with a title that does not
\* restate the prefix, with turns, and with text in some turn
ValidEntry(value) ==
    /\ value.kind = "object"
    /\ RawName(value) # <<>> /\ ~StartsWithComposerData(RawName(value))
    /\ RawTurns(value) # <<>> /\ ~AllTextEmpty(value)

\* the row-read, decode and write failures that hit the item of row n
FailedRows ==
    { e.src : e \in { x \in log : x.ev \in {"scanFailed", "fetchFailed", "decodeFailed", "writeFailed"} } }

\* the reference range predicate on a stored value
RawInRange(value, t) ==
    LET start == Get(value.obj, "createdAt", 0) \div 1000
        end == RawLastEnd(value) \div 1000
    IN  /\ Unset(t.startAfter) \/ start >= t.startAfter.unix
        /\ Unset(t.startBefore) \/ start <= t.startBefore.unix
        /\ \/ RawLastEnd(value) = 0
           \/ /\ Unset(t.endAfter) \/ end >= t.endAfter.unix
              /\ Unset(t.endBefore) \/ end <= t.endBefore.unix

BatchDone == pc = "done" /\ args.hash = <<>> /\ Len(out) = 1

\* C14: in ls and batch export a row-read, decode or write failure of one
\* entry skips only that entry: every other entry that is no sentinel, is
\* decodable, valid and in range is listed (ls) or exported (export), and the
\* run ends with a success report.
C14_FailuresSkipOnlyTheirEntry ==
    /\ (BatchDone /\ FailedRows # {}) => out[1].success
    /\ (BatchDone /\ out[1].success) =>
          \A n \in 1..Len(store) :
              (/\ ~Sentinel(store[n]) /\ ValidEntry(store[n].value)
               /\ n \notin FailedRows
               /\ args.cmd = "export" => RawInRange(store[n].value, args.times))
              => \E i \in 1..Len(out[1].items) :
                    /\ out[1].items[i].src = n
                    /\ args.cmd = "export" =>
                          /\ out[1].items[i].OutputPath # <<>>
                          /\ [ev |-> "written", src |-> n, path |-> out[1].items[i].OutputPath] \in log

----------------------------------------------------------------------------
(* C15 *)

\* store file missing, store not opened, output directory not created,
\* scan query failed
FatalConditions == {"missing", "openFailed", "mkdirFailed", "queryFailed"}

\* no file of the output directory was written by the run
NoDocumentWritten == \A f \in files : f.from = <<>>

\* C15: when the store file is missing, the store cannot be opened, the
\* output directory cannot be created or the scan query fails, the listing
\* or export ends at once with a failure: no session or descriptor is
\* reported, no row is scanned and no document is written.
C15_FatalEndsAtOnce ==
    \A m \in 1..Len(out) :
        out[m].what \in FatalConditions =>
            /\ pc = "done" /\ Len(out) = 1
            /\ ~out[m].success /\ out[m].items = <<>> /\ out[m].total = 0
            /\ sessions = <<>> /\ cursor = 0 /\ idx = 0 /\ log = {}
            /\ NoDocumentWritten

\* a batch export over a store of two rows and a directory that holds a
\* file has ended because the output directory could not be created
C15_Witness ==
    /\ pc = "done" /\ args.cmd = "export" /\ args.hash = <<>>
    /\ Len(out) = 1 /\ out[1].what = "mkdirFailed"
    /\ Len(store) = 2 /\ files # {}

----------------------------------------------------------------------------
(* C16 *)

\* C16: with -json every fatal condition of ls and export (store missing,
\* open failure, directory creation failure, scan query failure, unparsable
\* time argument, unresolvable default path) is reported as a structured
\* object with success = false, never as plain text.
C16_JsonWrapsEveryFatal ==
    args.json =>
        \A m \in 1..Len(out) :
            out[m].what \in FatalConditions \cup {"badTimeArg", "noDefaultPath"} =>
                out[m].fmt = "json" /\ ~out[m].success

----------------------------------------------------------------------------
(* C17 *)

ComposerDataKey(id) == <<"c","o","m","p","o","s","e","r","D","a","t","a",":">> \o id

SingleDone == pc = "done" /\ args.hash # <<>> /\ Len(out) = 1

\* C17: single-session export of an id for which the store has no entry
\* under "composerData:" + id ends with a "not found" failure (success =
\* false with -json) and writes no document.
C17_UnknownIdNotFound ==
    (SingleDone /\ \A n \in 1..Len(store) : store[n].key # ComposerDataKey(args.hash)) =>
        /\ ~out[1].success
        /\ NoDocumentWritten
        /\ args.json => out[1].fmt = "json"
        /\ out[1].what \notin (FatalConditions \cup {"noDefaultPath"}) => out[1].what = "notFound"

\* a -json export of an id the non-empty store does not hold has ended "not found"
C17_Witness ==
    /\ SingleDone /\ args.json /\ Len(store) >= 1
    /\ \A n \in 1..Len(store) : store[n].key # ComposerDataKey(args.hash)
    /\ out[1].what = "notFound" /\ out[1].fmt = "json"

----------------------------------------------------------------------------
(* C18 *)

\* a stored value the validity filter has to reject, or that does not decode
InvalidEntry(value) ==
    \/ value.kind # "object"
    \/ StartsWithComposerData(RawName(value))
    \/ RawTurns(value) = <<>>
    \/ AllTextEmpty(value)

\* the files of the output directory the run wrote
WrittenFiles == { f \in files : f.from # <<>> }

\* C18: single-session export of an id whose entry exists, decodes and passes
\* the validity filter writes exactly one document, the rendering of that
\* entry, and reports success with total 1; when the entry does not decode
\* or fails the validity filter it reports failure and writes no document.
C18_SingleExportOneDocument ==
    (SingleDone /\ out[1].what \notin (FatalConditions \cup {"noDefaultPath", "writeFailed"})) =>
        \A n \in 1..Len(store) :
            store[n].key = ComposerDataKey(args.hash) =>
                /\ ValidEntry(store[n].value) =>
                      /\ out[1].success /\ out[1].total = 1 /\ Len(out[1].items) = 1
                      /\ Cardinality(WrittenFiles) = 1
                      /\ \A f \in WrittenFiles :
                            /\ f.from = store[n].key
                            /\ f.path = out[1].items[1].OutputPath
                            /\ f.doc[1].s = RawName(store[n].value)
                            /\ Cardinality({ i \in 1..Len(f.doc) : f.doc[i].k \in {"## User", "## Cursor"} })
                                 = Cardinality({ i \in 1..Len(RawTurns(store[n].value)) :
                                                   RawTurns(store[n].value)[i].type \in {1, 2} })
                /\ InvalidEntry(store[n].value) =>
                      /\ ~out[1].success
                      /\ NoDocumentWritten

----------------------------------------------------------------------------
(* C19 *)

\* the descriptors of a batch export: in the making and as reported
BatchDescriptors ==
    IF args.cmd = "export" /\ args.hash = <<>> THEN Reported ELSE {}

\* C19: for every export descriptor of a batch export, outputPath is
\* non-empty if and only if the write of the item's document succeeded, and
\* it is then the path that was written.
C19_OutputPathIffWritten ==
    \A d \in BatchDescriptors :
        /\ d.OutputPath # <<>> <=> \E e \in log : e.ev = "written" /\ e.src = d.src
        /\ \A e \in log : (e.ev = "written" /\ e.src = d.src) =>
              /\ e.path = d.OutputPath
              /\ \E f \in files : f.path = e.path /\ f.from # <<>>

\* a batch export has reported one item with the path of its document and
\* one item, whose write failed, without a path
C19_Witness ==
    /\ BatchDone /\ out[1].what = "exported" /\ Len(out[1].items) = 2
    /\ \E i, j \in 1..2 :
          /\ out[1].items[i].OutputPath # <<>>
          /\ out[1].items[j].OutputPath = <<>>
          /\ \E e \in log : e.ev = "writeFailed" /\ e.src = out[1].items[j].src

----------------------------------------------------------------------------
(* C20 *)

\* a time argument that is not empty and is in none of the three layouts
Unparsable(a) ==
    /\ a.kind # "empty"
    /\ \/ a.kind = "bad"
       \/ /\ "layout" \in DOMAIN a
          /\ a.layout \notin {"2006-01-02", "2006-01-02 15:04", "2006-01-02 15:04:05"}

BadTimeArgument ==
    /\ args.cmd = "export" /\ args.hash = <<>>
    /\ \/ Unparsable(args.times.startAfter) \/ Unparsable(args.times.startBefore)
       \/ Unparsable(args.times.endAfter) \/ Unparsable(args.times.endBefore)

\* C20: a batch export given a non-empty time argument in none of the three
\* formats ends with an input error before the store is opened, the output
\* directory created, a row scanned or a document written.
C20_BadTimeArgEndsBeforeScan ==
    BadTimeArgument =>
        /\ pc \in {"main", "done"}
        /\ cursor = 0 /\ sessions = <<>> /\ idx = 0 /\ log = {} /\ trace = {}
        /\ NoDocumentWritten
        /\ pc = "done" => (Len(out) = 1 /\ out[1].what = "badTimeArg" /\ ~out[1].success)

\* an export whose start-before is unparsable, after a start-after that
\* parsed, has ended over a store of two rows
C20_Witness ==
    /\ pc = "done" /\ BadTimeArgument /\ Len(store) = 2
    /\ ~Unparsable(args.times.startAfter) /\ args.times.startAfter.kind = "time"
    /\ Unparsable(args.times.startBefore)
    /\ Len(out) = 1 /\ out[1].what = "badTimeArg"

----------------------------------------------------------------------------
(* C21 *)

\* the session summaries of the ls reports
Listed ==
    UNION { { out[m].items[i] : i \in 1..Len(out[m].items) } :
              m \in { k \in 1..Len(out) : out[k].what \in {"sessions", "table"} } }

\* C21: a listed conversation whose last turn's end-timing is 0 carries the
\* zero-value end time, and the text table shows the not-ended marker for
\* it; a concrete end time is carried only for a non-zero end-timing.
C21_UnresolvedEndIsZeroTime ==
    \A s \in Listed :
        IF RawLastEnd(store[s.src].value) = 0
        THEN /\ s.EndTime = ZeroTimeUnix
             /\ ("endTimeStr" \in DOMAIN s) => s.endTimeStr = "notEnded"
        ELSE /\ s.EndTime = RawLastEnd(store[s.src].value) \div 1000
             /\ ("endTimeStr" \in DOMAIN s) => s.endTimeStr = "date"

----------------------------------------------------------------------------
(* C22 *)

Rendered == nm.kind = "render" /\ nm.done

Positions(doc, kinds) == { i \in 1..Len(doc) : doc[i].k \in kinds }

InfoKinds == {"start", "end", "related"}

TurnKinds ==
    {"## User", "refFiles", "snippets", "from", "snippet", "quote",
     "## Cursor", "text", "fence", "code", "fenceEnd"}

\* the end-timing of the last turn of a payload, 0 without turns
PayloadLastEnd(payload) ==
    IF payload.conversation = <<>> THEN 0
    ELSE Get(payload.conversation[Len(payload.conversation)], "clientEndTime", 0)

\* the position of the line that closes the Session Info section
InfoEnd(doc) == CHOOSE b \in Positions(doc, {"blank"}) : \A c \in Positions(doc, {"blank"}) : b <= c

\* C22: the document starts with the title heading, then exactly one Session
\* Info section, then all turn sections; the Session Info section has the
\* start-time line always, the end-time line exactly when the recomputed end
\* time is greater than 0, and the related-files line exactly when the
\* conversation has a related file.
C22_DocumentStructure ==
    Rendered =>
        LET doc == nm.doc
            b == InfoEnd(doc)
        IN  /\ Len(doc) >= 4
            /\ doc[1].k = "# title" /\ doc[1].s = nm.payload.name
            /\ doc[2].k = "## info"
            /\ Positions(doc, {"# title"}) = {1} /\ Positions(doc, {"## info"}) = {2}
            /\ Cardinality(Positions(doc, {"blank"})) = 1
            /\ \A i \in 3..(b - 1) : doc[i].k \in InfoKinds
            /\ \A i \in (b + 1)..Len(doc) : doc[i].k \in TurnKinds
            /\ doc[3].k = "start" /\ doc[3].n = nm.payload.createdAt \div 1000
            /\ Positions(doc, {"start"}) = {3}
            /\ IF PayloadLastEnd(nm.payload) > 0
               THEN /\ Cardinality(Positions(doc, {"end"})) = 1
                    /\ \A i \in Positions(doc, {"end"}) :
                          doc[i].n = PayloadLastEnd(nm.payload) \div 1000
               ELSE Positions(doc, {"end"}) = {}
            /\ IF nm.payload.fileSelections # <<>>
               THEN /\ Cardinality(Positions(doc, {"related"})) = 1
                    /\ \A i \in Positions(doc, {"related"}) :
                          Len(doc[i].l) = Len(nm.payload.fileSelections)
               ELSE Positions(doc, {"related"}) = {}
            /\ Cardinality(Positions(doc, {"## User", "## Cursor"}))
                 = Cardinality({ i \in 1..Len(nm.payload.conversation) :
                                   nm.payload.conversation[i].type \in {1, 2} })

----------------------------------------------------------------------------
(* C23 *)

RECURSIVE Select(_, _)
\* the elements of seq that lie in set, in order
Select(seq, set) ==
    IF seq = <<>> THEN <<>>
    ELSE (IF seq[1] \in set THEN <<seq[1]>> ELSE <<>>) \o Select(Tail(seq), set)

Kinds(doc) == [i \in 1..Len(doc) |-> doc[i].k]

Roles(payload) == [i \in 1..Len(payload.conversation) |-> payload.conversation[i].type]

HeadingOf(role) == IF role = 1 THEN "## User" ELSE "## Cursor"

\* the lines after the Session Info section
TurnPart(doc) == SubSeq(doc, InfoEnd(doc) + 1, Len(doc))

RECURSIVE KeepTurns(_)
\* the User and Assistant turns of a stored conversation, in order
KeepTurns(conv) ==
    IF conv = <<>> THEN <<>>
    ELSE (IF conv[1].type \in {1, 2} THEN <<conv[1]>> ELSE <<>>) \o KeepTurns(Tail(conv))

\* C23: the renderer emits one section per User or Assistant turn, in the
\* stored order ("## User" / "## Cursor"), and nothing for a turn of another
\* role: the headings are the roles of the turns restricted to User and
\* Assistant, and the turn part is that of the conversation without the
\* other turns.
C23_OneSectionPerTurn ==
    Rendered =>
        LET heads == Select(Kinds(nm.doc), {"## User", "## Cursor"})
            roles == Select(Roles(nm.payload), {1, 2})
        IN  /\ Len(heads) = Len(roles)
            /\ \A i \in 1..Len(roles) : heads[i] = HeadingOf(roles[i])
            /\ TurnPart(nm.doc) =
                 RenderTurns(DecodeRecord([conversation |-> KeepTurns(nm.payload.conversation)]).Conversation)

\* a conversation of an Assistant turn and a turn of another role that has
\* a code block has been rendered
C23_Witness ==
    /\ Rendered /\ Len(nm.payload.conversation) = 2
    /\ \E i, j \in 1..2 :
          /\ nm.payload.conversation[i].type = 2
          /\ nm.payload.conversation[j].type = 3

----------------------------------------------------------------------------
(* C24 *)

\* the non-empty code blocks of the Assistant turns, in order
RECURSIVE NonEmptyBlocks(_)
NonEmptyBlocks(blocks) ==
    IF blocks = <<>> THEN <<>>
    ELSE (IF blocks[1].content # <<>> THEN <<blocks[1]>> ELSE <<>>) \o NonEmptyBlocks(Tail(blocks))

RECURSIVE AssistantBlocks(_)
AssistantBlocks(conv) ==
    IF conv = <<>> THEN <<>>
    ELSE (IF conv[1].type = 2 THEN NonEmptyBlocks(Get(conv[1], "codeBlocks", <<>>)) ELSE <<>>)
         \o AssistantBlocks(Tail(conv))

\* the part of a path after its last "/" (paths here do not end in "/")
LastSegment(path) ==
    LET cut == { i \in 1..Len(path) : path[i] = "/" }
    IN  IF cut = {} THEN path
        ELSE SubSeq(path, (CHOOSE i \in cut : \A j \in cut : j <= i) + 1, Len(path))

\* the lines of section number k (from its heading to the next heading)
Section(doc, k) ==
    LET hs == { i \in 1..Len(doc) : doc[i].k \in {"## User", "## Cursor"} }
        from == CHOOSE i \in hs : Cardinality({ j \in hs : j <= i }) = k
        next == { i \in hs : i > from }
        to == IF next = {} THEN Len(doc) ELSE (CHOOSE i \in next : \A j \in next : i <= j) - 1
    IN  SubSeq(doc, from, to)

\* C24: for an Assistant turn the renderer emits one fenced block per code
\* block with content, in stored order, and none for a block without: the
\* opening fences of the turn's section are as many as its non-empty blocks,
\* the info string is the language tag, followed by ":[basename](path)"
\* exactly when the block has a path.
C24_FencePerNonEmptyBlock ==
    Rendered =>
        LET turns == KeepTurns(nm.payload.conversation)
            fences == [i \in 1..Len(Select(Kinds(nm.doc), {"fence"})) |->
                          nm.doc[CHOOSE p \in Positions(nm.doc, {"fence"}) :
                                    Cardinality({ q \in Positions(nm.doc, {"fence"}) : q <= p }) = i]]
            blocks == AssistantBlocks(nm.payload.conversation)
        IN  /\ \A k \in 1..Len(turns) :
                  Cardinality(Positions(Section(nm.doc, k), {"fence"}))
                    = (IF turns[k].type = 2
                       THEN Len(NonEmptyBlocks(Get(turns[k], "codeBlocks", <<>>))) ELSE 0)
            /\ Len(fences) = Len(blocks)
            /\ \A i \in 1..Len(blocks) :
                  /\ fences[i].s = blocks[i].languageId
                  /\ fences[i].l = (IF blocks[i].path # <<>>
                                    THEN << [base |-> LastSegment(blocks[i].path), path |-> blocks[i].path] >>
                                    ELSE <<>>)
            /\ \A p \in Positions(nm.doc, {"fence"}) :
                  /\ p + 2 <= Len(nm.doc)
                  /\ nm.doc[p + 1].k = "code" /\ nm.doc[p + 1].s # <<>>
                  /\ nm.doc[p + 2].k = "fenceEnd"
            /\ Cardinality(Positions(nm.doc, {"code"})) = Len(blocks)
            /\ Cardinality(Positions(nm.doc, {"fenceEnd"})) = Len(blocks)

\* an Assistant turn with a pathed block, an empty block and a bare block
\* has been rendered
C24_Witness ==
    /\ Rendered
    /\ \E i \in 1..Len(nm.payload.conversation) :
          /\ nm.payload.conversation[i].type = 2
          /\ Len(nm.payload.conversation[i].codeBlocks) = 3
          /\ nm.payload.conversation[i].codeBlocks[1].path # <<>>
          /\ nm.payload.conversation[i].codeBlocks[2].content = <<>>
          /\ nm.payload.conversation[i].codeBlocks[3].path = <<>>

----------------------------------------------------------------------------
(* C25 *)

\* C25: for every total N, index i and title, generateNumberedFileName gives
\* the same file name with descending = true as with descending = false; the
\* number is i + 1, the position in the order the caller sorted.
C25_NumberingIgnoresDirection ==
    (nm.kind = "name" /\ nm.index > 0) =>
        /\ nm.numbered = generateNumberedFileName(nm.total, nm.index - 1, ~nm.descending, nm.title)
        /\ ParseDigits(NumericPrefix(nm.numbered)) = (nm.index - 1) + 1

\* the third of at least three items has been named for a descending export
C25_Witness ==
    nm.kind = "name" /\ nm.descending /\ nm.index = 3 /\ nm.total >= 3

----------------------------------------------------------------------------
(* C26 *)

\* the export loop has just written the document of item idx + 1
WroteItem ==
    /\ pc = "ex_write" /\ idx' = idx + 1
    /\ sessions'[idx + 1].OutputPath # <<>>

\* C26: every document a batch export writes is the rendering of the payload
\* of the store entry that produced the item during the scan (an entry that
\* passed the sentinel skip, the decoder and the filters): the payload
\* re-fetched under "composerData:" + id is that entry's payload.
C26_RefetchIsTheScannedEntry ==
    [][ WroteItem =>
          LET item == sessions[idx + 1]
              entry == store[item.src]
          IN  /\ ~Sentinel(entry) /\ entry.value.kind = "object"
              /\ ComposerDataKey(item.Hash) = entry.key
              /\ \E f \in files' :
                    /\ f.path = sessions'[idx + 1].OutputPath
                    /\ f.from = entry.key
                    /\ f.doc[1].s = RawName(entry.value) ]_vars

----------------------------------------------------------------------------
(* C27 *)

BatchExport == args.cmd = "export" /\ args.hash = <<>>

\* the descriptors whose document has not been written
Unwritten(seq) == { i \in 1..Len(seq) : seq[i].OutputPath = <<>> }

\* the descriptors whose document has been written
Written(seq) == (1..Len(seq)) \ Unwritten(seq)

\* C27: during export each record is decoded, filtered and written before
\* the scan cursor advances: no further store row is read between a record
\* passing the filters and the write of its document.
C27_WrittenBeforeCursorAdvances ==
    [][ (BatchExport /\ cursor' = cursor + 1) => Unwritten(sessions) = {} ]_vars

\* C27 as amended: the scan reads and filters every row before any document
\* is written; the documents are written after the scan and the sort, one
\* item per step in the sorted order, and no row is scanned from the first
\* write on.
C27_WrittenAfterTheScan ==
    [][ BatchExport =>
          /\ (cursor' # cursor) =>
                /\ files' = files
                /\ Unwritten(sessions') = 1..Len(sessions')
                /\ { e \in log' : e.ev = "written" } = {}
          /\ (files' # files \/ Written(sessions') # Written(sessions)) =>
                /\ pc = "ex_write" /\ cursor = Len(store) /\ cursor' = cursor
                /\ Len(sessions') = Len(sessions)
                /\ idx' = idx + 1 /\ Written(sessions) \subseteq 1..idx
                /\ Written(sessions') = Written(sessions) \cup {idx + 1} ]_vars

\* both rows of the store were scanned before the first of two documents
\* was written
C27_Witness ==
    /\ BatchExport /\ pc = "ex_write" /\ Len(store) = 2 /\ cursor = 2
    /\ Len(sessions) = 2 /\ idx = 1
    /\ sessions[1].OutputPath # <<>> /\ sessions[2].OutputPath = <<>>

----------------------------------------------------------------------------
(* C28 *)

\* C28: a batch export in by-title mode never overwrites a file, neither one
\* that was in the output directory before the run nor a document written
\* earlier in the run, whatever the exported titles and start times are.
C28_ByTitleNeverOverwrites ==
    [][ (BatchExport /\ ~args.byName /\ WroteItem) =>
          ~Exists(files, sessions'[idx + 1].OutputPath) ]_vars

----------------------------------------------------------------------------
(* C29 *)

\* the write loop's successful writes of the run
WrittenEvents == { e \in log : e.ev = "written" }

\* C29: in batch export the reported total, the number of descriptors in the
\* report and the count of the summary line equal the number of documents
\* written in the run.
C29_TotalIsWrittenCount ==
    (BatchExport /\ pc = "done" /\ Len(out) = 1 /\ out[1].what = "exported") =>
        /\ out[1].total = Cardinality(WrittenEvents)
        /\ Len(out[1].items) = Cardinality(WrittenEvents)

----------------------------------------------------------------------------
(* C30 *)

\* the rows of the store ls shows, and the id it shows for a row
ListedRows == { n \in 1..Len(store) : listRow(<<>>, store[n], n) # <<>> }
ListedId(n) == listRow(<<>>, store[n], n)[1].Hash

\* C30: for every session id ls shows, "composerData:" + id is the key of
\* the entry that produced the row, so distinct listed entries have distinct
\* ids, and single-session export of a listed id never ends with "not found"
\* and never exports another entry.
C30_ListedIdFindsItsEntry ==
    /\ \A s \in Listed : ComposerDataKey(s.Hash) = store[s.src].key
    /\ \A s, t \in Listed : s.src # t.src => s.Hash # t.Hash
    /\ \A n \in ListedRows :
          (SingleDone /\ args.hash = ListedId(n)) =>
              /\ out[1].what # "notFound"
              /\ out[1].what = "exported" => out[1].items[1].src = n

====
